---- MODULE Spec2Model ----
(***************************************************************************)
(* Credential vault and OAuth2 token lifecycle of the TikTok Kit CLIs:     *)
(* eldoore1.1.py (vault, refresh_token_if_needed, local callback listener, *)
(* tiktok_oauth_login, validate_input, menu), the vault functions and     *)
(* login of TTKv1.py, and the vault functions and main_menu of             *)
(* tiktok_kit_cli.py.                                                      *)
(*                                                                         *)
(* Conventions.  A Python dict with a fixed set of possible keys is a      *)
(* record holding every possible field plus the set `keys` of the keys     *)
(* that are present; an absent field holds its canonical default, so that  *)
(* equal dicts are equal records.  Python None is the value None.  An ISO  *)
(* timestamp string is the one-element sequence around the clock value,    *)
(* and <<>> where the value is None.                                       *)
(***************************************************************************)
EXTENDS Integers, Sequences, FiniteSets, TLC

\* ------------------------------------------------------------------ bounds
\* Largest clock value the model lets time advance to.
MaxTime == 2
\* Number of inbound HTTP requests the environment sends to the listener
\* during one login attempt.
MaxCallbacks == 2

\* Entries kept in data["analyses"].
MaxAnalyses == 1

\* Number of times the program is started.
MaxRuns == 3

\* Characters of a line typed at a prompt.
MaxInputLen == 2

\* --------------------------------------------------------- program constants
\* stop_after_attempt(3) of the retry decorator.
StopAfterAttempt == 3
\* token_data.get("expires_in", 7200)
DefaultExpiresIn == 7200

\* ------------------------------------------------------------ value domains
None == "None"
Usernames == {"alice", "bob"}
AuthCodes == {"ABC123"}
AccessTokens == {"T"}
RefreshTokens == {"R"}
\* The refresh token a refresh response carries when the provider rotates it.
RotatedTokens == {"R2"}
\* Lifetimes (seconds) the token endpoint declares.
Lifetimes == {1}
EldooreKeys == {"users", "analyses", "creds", "current_user"}
OtherKeys == {"users", "analyses", "payments"}

\* ------------------------------------------------------------ Python values
\* datetime.isoformat() / datetime.fromisoformat()
IsoFormat(t) == <<t>>
FromIsoFormat(s) == s[1]

\* {} as returned by data["users"].get(username, {}): every .get on it
\* yields None.
EmptyDict ==
  [tiktok_access_token |-> None, refresh_token |-> None, expires_at |-> <<>>,
   tier |-> None, login_time |-> <<>>]

\* No call of validate_input has been made.
NoInput ==
  [pc |-> "idle", validator |-> None, required |-> FALSE, again |-> FALSE,
   entered |-> <<>>, value |-> <<>>]

\* creds dict; a missing key reads as None through .get.
NoCreds ==
  [tiktok_app_id |-> None, tiktok_app_secret |-> None, tiktok_advertiser_id |-> None]

\* The document load_data of eldoore1.1.py returns for a missing or unusable file.
EmptyDocument ==
  [keys |-> EldooreKeys, users |-> <<>>, analyses |-> <<>>, creds |-> NoCreds,
   current_user |-> None]

\* The document load_data of TTKv1.py / tiktok_kit_cli.py returns for a missing file.
FirstRunDocument ==
  [keys |-> OtherKeys, users |-> <<>>, analyses |-> <<>>, creds |-> NoCreds,
   current_user |-> None]

\* The {} that load_data of TTKv1.py / tiktok_kit_cli.py returns from its except branch.
BareDict ==
  [keys |-> {}, users |-> <<>>, analyses |-> <<>>, creds |-> NoCreds,
   current_user |-> None]

\* dict.get(key, default) on the users mapping
UsersGet(users, u) == IF u \in DOMAIN users THEN users[u] ELSE EmptyDict

\* users[u] = s
UsersPut(users, u, s) == [x \in (DOMAIN users) \cup {u} |-> IF x = u THEN s ELSE users[x]]

\* Variant of UsersDel that empties the mapping.
UsersDelAll(users, u) == <<>>

\* del users[u]
UsersDel(users, u) == [x \in (DOMAIN users) \ {u} |-> users[x]]

\* ------------------------------------------------------------------- JSON
\* json.dumps turns a None dict key into the string "null" and leaves string
\* keys alone.
JsonKey(k) == IF k = None THEN "null" ELSE k

\* json.dumps of a scalar: None becomes the literal null.
JsonScalar(v) == IF v = None THEN "null" ELSE v

\* json.loads of a scalar: the literal null becomes None.
PyScalar(j) == IF j = "null" THEN None ELSE j

JsonSession(s) ==
  [tiktok_access_token |-> JsonScalar(s.tiktok_access_token),
   refresh_token |-> JsonScalar(s.refresh_token),
   expires_at |-> s.expires_at, tier |-> JsonScalar(s.tier),
   login_time |-> s.login_time]

PySession(j) ==
  [tiktok_access_token |-> PyScalar(j.tiktok_access_token),
   refresh_token |-> PyScalar(j.refresh_token),
   expires_at |-> j.expires_at, tier |-> PyScalar(j.tier),
   login_time |-> j.login_time]

JsonCreds(c) == [k \in DOMAIN c |-> JsonScalar(c[k])]
PyCreds(j) == [k \in DOMAIN j |-> PyScalar(j[k])]

\* json.dumps(data): the text of the document.  Entries of the users mapping
\* are emitted under their stringified keys.
JsonDumps(d) ==
  [keys |-> d.keys,
   users |-> [k \in {JsonKey(u) : u \in DOMAIN d.users} |->
                JsonSession(d.users[CHOOSE u \in DOMAIN d.users : JsonKey(u) = k])],
   analyses |-> d.analyses,
   creds |-> JsonCreds(d.creds),
   current_user |-> JsonScalar(d.current_user)]

\* json.loads(text); object keys stay strings.
JsonLoads(j) ==
  [keys |-> j.keys,
   users |-> [k \in DOMAIN j.users |-> PySession(j.users[k])],
   analyses |-> j.analyses,
   creds |-> PyCreds(j.creds),
   current_user |-> PyScalar(j.current_user)]

\* --------------------------------------------------------------- KEY_FILE
\* Rotation age of manage_encryption_key, in seconds (eldoore1.1.py line 57).
KeyMaxAge == 30 * 24 * 3600

\* KEY_FILE: whether it exists, the key in it, its modification time.
NoKeyFile == [exists |-> FALSE, key |-> 0, mtime |-> 0]
KeyFile(key, t) == [exists |-> TRUE, key |-> key, mtime |-> t]

\* key_age when there was no KEY_FILE to take the age of.
NoKeyAge == -1

\* Variant of KeyTooOld that rotates at every start.
KeyTooOldAlways(age) == TRUE

\* Variant of KeyTooOld that rotates a key of exactly the rotation age.
KeyTooOldFromThirtyDays(age) == age >= KeyMaxAge

\* `if key_age > 30 * 24 * 3600` (eldoore1.1.py line 57)
KeyTooOld(age) == age > KeyMaxAge

\* KEY_FILE after the key setup at import time: manage_encryption_key of
\* eldoore1.1.py (lines 48-68), the module-level code of TTKv1.py (lines
\* 27-34) and tiktok_kit_cli.py (lines 27-33), which never rotate.
\* Fernet.generate_key() yields a key no earlier start has made.
manage_encryption_key(v, kf, t, generated) ==
  IF ~kf.exists THEN KeyFile(generated, t)
  ELSE IF v = "eldoore" /\ KeyTooOld(t - kf.mtime) THEN KeyFile(generated, t)
  ELSE kf

\* ----------------------------------------------------------------- Fernet
\* A vault file: whether it exists, whether open() succeeds on it, the key
\* its content was encrypted under, and the plaintext as a sequence holding
\* the JSON text (empty when the plaintext is not JSON).
NoFile == [exists |-> FALSE, readable |-> TRUE, key |-> 0, text |-> <<>>]

\* fernet.encrypt(json_str.encode()) written to DATA_FILE
FernetFile(key, text) == [exists |-> TRUE, readable |-> TRUE, key |-> key, text |-> <<text>>]

\* Variant of DecryptOk in which any key decrypts any token.
DecryptOkWithAnyKey(key, file) == TRUE

\* fernet.decrypt raises InvalidToken unless the token was made with this key.
DecryptOk(key, file) == file.key = key

\* json.loads raises unless the plaintext is JSON.
ParseOk(file) == Len(file.text) = 1

\* ------------------------------------------------------------- variables
VARIABLES
  now,        \* wall clock (time.time() / datetime.now()), in seconds
  fernet,     \* key of the module-level Fernet object
  key_file,   \* KEY_FILE
  runs,       \* number of times the program has been started
  key_age,    \* age of KEY_FILE found by the last start, NoKeyAge if there was none
  data_file,  \* DATA_FILE
  pc,         \* position of the foreground thread of eldoore1.1.py
  ret,        \* call site refresh_token_if_needed returns to
  attempt,    \* attempt number of the retry decorator (1-based)
  username,   \* username of the operation in progress
  data,       \* local `data` of tiktok_oauth_login
  user_data,  \* local `user_data` dict handed to refresh_token_if_needed
  httpd,      \* the TCPServer object returned by start_local_server
  handler,    \* the request OAuthCallbackHandler.do_GET is serving, if any
  callbacks,  \* inbound requests sent to the listener in this login attempt
  auth_code,  \* local `auth_code` of tiktok_oauth_login
  requests,   \* requests sent by the operation in progress, by kind
  resp,       \* last answer of the token endpoint
  rv,         \* what the last call of refresh_token_if_needed returned or raised
  outcome,    \* how the last operation ended
  entry_file, \* DATA_FILE as it was when the operation in progress began
  variant,    \* which CLI the vault functions below belong to
  vdoc,       \* document held in memory by the caller of the vault functions
  vres,       \* what the last vault function call returned or raised
  vcall,      \* the last vault function called with a username, and that username
  vpc,        \* position of the caller of the vault functions
  vin,        \* the call of validate_input in progress or last returned
  choice      \* `choice` of the last iteration of main_menu of tiktok_kit_cli.py

cliVars == <<now, pc, ret, attempt, username, data, user_data, httpd, handler,
             callbacks, auth_code, requests, resp, rv, outcome, entry_file>>
vaultVars == <<variant, vdoc, vres, vcall, vpc>>
keyVars == <<key_file, runs, key_age>>
ioVars == <<vin, choice>>
vars == <<cliVars, vaultVars, keyVars, ioVars, fernet, data_file>>

\* ------------------------------------------------------------ vault functions
\* Variant of encrypt_data that encrypts under a newly generated key instead
\* of the module-level one.
encrypt_data_fresh_key(key, d) == FernetFile(key + 1, JsonDumps(d))

\* encrypt_data(data) of every variant: the file a successful call writes.
encrypt_data(key, d) == FernetFile(key, JsonDumps(d))

\* open(DATA_FILE, 'wb') succeeds: a file the process cannot open for
\* reading cannot be opened for writing either.
CanWrite(file) == file.exists => file.readable

\* What a failing encrypt_data ends in: eldoore1.1.py catches the exception
\* and calls sys.exit(1) (lines 127-129), the other variants let it through.
WriteFailure(v) == IF v = "eldoore" THEN "SystemExit" ELSE "PermissionError"

\* load_data() of eldoore1.1.py: open, decrypt and parse inside one try;
\* every failure yields the empty document.
load_data(key, file) ==
  IF file.exists
    THEN IF file.readable /\ DecryptOk(key, file) /\ ParseOk(file)
           THEN JsonLoads(file.text[1])
           ELSE EmptyDocument
    ELSE EmptyDocument

\* load_data() of TTKv1.py and tiktok_kit_cli.py: open() is outside the try,
\* decrypt and parse are inside; the except branch returns {}.
load_data_other(key, file) ==
  IF file.exists
    THEN IF ~file.readable
           THEN [exc |-> "PermissionError", val |-> BareDict]
           ELSE IF DecryptOk(key, file) /\ ParseOk(file)
                  THEN [exc |-> "none", val |-> JsonLoads(file.text[1])]
                  ELSE [exc |-> "none", val |-> BareDict]
    ELSE [exc |-> "none", val |-> FirstRunDocument]

\* load_data() of the given variant, as a result record.
LoadData(v, key, file) ==
  IF v = "eldoore"
    THEN [exc |-> "none", val |-> load_data(key, file)]
    ELSE load_data_other(key, file)

\* get_user_data(username): data["users"].get(username, {}) on the loaded
\* document; data["users"] raises KeyError when the key is absent.
get_user_data(v, key, file, u) ==
  LET r == LoadData(v, key, file) IN
  IF r.exc # "none" THEN [exc |-> r.exc, val |-> EmptyDict]
  ELSE IF "users" \notin r.val.keys THEN [exc |-> "KeyError", val |-> EmptyDict]
  ELSE [exc |-> "none", val |-> UsersGet(r.val.users, u)]

\* ------------------------------------------------------------------------
\* The vault functions on their own: a caller holding a document saves it,
\* loads it, and runs the operations that start with a load, while the file
\* may be damaged from outside between calls.
\* ------------------------------------------------------------------------
Variants == {"eldoore", "ttk", "cli"}

\* The stored session of eldoore1.1.py (tiktok_oauth_login, lines 465-471).
Session(token, refresh, expires, t) ==
  [tiktok_access_token |-> token, refresh_token |-> refresh,
   expires_at |-> expires, tier |-> "enterprise", login_time |-> IsoFormat(t)]

\* The stored session of TTKv1.py (lines 287-292) and of tiktok_kit_cli.py
\* (save_token; its "token" is held in the access-token field).
BasicSession(token, t) ==
  [tiktok_access_token |-> token, refresh_token |-> None,
   expires_at |-> <<>>, tier |-> "basic", login_time |-> IsoFormat(t)]

\* An entry analyze_video appends to data["analyses"] (eldoore1.1.py lines
\* 272-277, TTKv1.py lines 146-151).
VideoAnalysis == [type |-> "video_analysis"]

\* creds as set_credentials stores them.
Creds(app, secret, adv) ==
  [tiktok_app_id |-> app, tiktok_app_secret |-> secret, tiktok_advertiser_id |-> adv]

\* Sessions the variant stores.
SessionsOf(v) ==
  IF v = "eldoore"
    THEN {Session(a, r, IsoFormat(e), 0) :
            a \in AccessTokens, r \in RefreshTokens \cup {None}, e \in {1, DefaultExpiresIn}}
    ELSE {BasicSession(a, 0) : a \in AccessTokens}

\* Documents the variant builds and hands to encrypt_data.
DocumentsOf(v) ==
  LET S == SessionsOf(v)
      U == {<<>>} \cup {UsersPut(<<>>, u, s) : u \in Usernames, s \in S}
             \cup {UsersPut(UsersPut(<<>>, "alice", s), "bob", s) : s \in S}
      K == IF v = "eldoore" THEN {EldooreKeys}
           ELSE IF v = "ttk" THEN {OtherKeys, OtherKeys \cup {"creds", "current_user"}}
           ELSE {OtherKeys, OtherKeys \cup {"creds"}}
  IN { [keys |-> k, users |-> us, analyses |-> an, creds |-> c, current_user |-> cu] :
         k \in K, us \in U, an \in {<<>>, <<VideoAnalysis>>},
         c \in {NoCreds, Creds("app", "secret", "adv")}, cu \in {None} \cup Usernames }

\* Documents whose absent keys hold their defaults and whose current_user,
\* if any, is one the variant can have set.
WellFormed(v, d) ==
  /\ ("creds" \notin d.keys => d.creds = NoCreds)
  /\ ("current_user" \notin d.keys => d.current_user = None)
  /\ (v = "eldoore" /\ d.current_user # None => d.current_user \in DOMAIN d.users)

\* Whether load_data cannot use the file that is there.
Damaged(key, file) ==
  file.exists /\ ~(file.readable /\ DecryptOk(key, file) /\ ParseOk(file))

\* logout(username) of the variant: the file it leaves and what it raises.
logout(v, key, file, u) ==
  LET r == LoadData(v, key, file)
      d == r.val
  IN
  IF r.exc # "none" THEN [exc |-> r.exc, file |-> file]
  ELSE IF "users" \notin d.keys
    THEN \* data["users"] raises KeyError; eldoore1.1.py catches it (line 757)
         [exc |-> IF v = "eldoore" THEN "none" ELSE "KeyError", file |-> file]
  ELSE IF v \in {"eldoore", "ttk"}
    THEN \* eldoore1.1.py lines 750-758, TTKv1.py lines 410-416
         IF CanWrite(file)
           THEN [exc |-> "none",
                 file |-> encrypt_data(key, [d EXCEPT !.users = UsersDel(d.users, u),
                                                      !.current_user = None,
                                                      !.keys = @ \cup {"current_user"}])]
           ELSE [exc |-> WriteFailure(v), file |-> file]
  ELSE \* tiktok_kit_cli.py lines 121-126: saves only when the user was there
       IF u \notin DOMAIN d.users THEN [exc |-> "none", file |-> file]
       ELSE IF CanWrite(file)
         THEN [exc |-> "none",
               file |-> encrypt_data(key, [d EXCEPT !.users = UsersDel(d.users, u)])]
         ELSE [exc |-> WriteFailure(v), file |-> file]

\* save_token(username, token) of tiktok_kit_cli.py.
save_token(key, file, u, token, t) ==
  LET r == load_data_other(key, file)
      d == r.val
  IN
  IF r.exc # "none" THEN [exc |-> r.exc, file |-> file]
  ELSE IF "users" \notin d.keys THEN [exc |-> "KeyError", file |-> file]
  ELSE [exc |-> "none",
        file |-> encrypt_data(key, [d EXCEPT !.users = UsersPut(d.users, u, BasicSession(token, t))])]

\* Whether what a vault operation raises ends the process: the main_menu
\* loops (eldoore1.1.py lines 762-815, TTKv1.py lines 419-469,
\* tiktok_kit_cli.py lines 340-380) have no handler, so everything the
\* operation lets through does, the SystemExit of sys.exit(1) included.
EndsProcess(exc) == exc # "none"

NoResult == [exc |-> "none", val |-> BareDict]
NoCall == [op |-> "none", user |-> None]

VaultInit ==
  /\ variant \in Variants
  /\ vdoc \in {d \in DocumentsOf(variant) : WellFormed(variant, d)}
  /\ vres = NoResult
  /\ vcall = NoCall
  /\ vpc = "idle"
  /\ fernet = 1
  /\ key_file = KeyFile(1, 0)
  /\ runs = 1
  /\ key_age = NoKeyAge
  /\ data_file = NoFile

\* encrypt_data(vdoc)
VEncryptData ==
  /\ vpc \in {"idle", "damaged", "loaded", "loaded_damaged", "reloaded", "ran"}
  /\ IF CanWrite(data_file)
       THEN /\ data_file' = encrypt_data(fernet, vdoc)
            /\ vres' = NoResult
            /\ vpc' = "saved"
       ELSE /\ vres' = [exc |-> WriteFailure(variant), val |-> BareDict]
            /\ vpc' = "ran_damaged"
            /\ UNCHANGED data_file
  /\ UNCHANGED <<variant, vdoc, vcall, keyVars, ioVars, fernet, cliVars>>

\* load_data()
VLoadData ==
  /\ vpc \in {"idle", "saved", "damaged"}
  /\ vres' = LoadData(variant, fernet, data_file)
  /\ vpc' = IF vpc = "saved" THEN "reloaded"
            ELSE IF Damaged(fernet, data_file) THEN "loaded_damaged" ELSE "loaded"
  /\ UNCHANGED <<variant, vdoc, vcall, keyVars, ioVars, fernet, data_file, cliVars>>

\* The file is damaged from outside: made unreadable, overwritten with bytes
\* that are no Fernet token of this key, or with a token whose plaintext is
\* not JSON.
VDamage ==
  /\ vpc \in {"idle", "saved"}
  /\ data_file.exists
  /\ \E kind \in {"unreadable", "undecryptable", "not_json"} :
       data_file' = IF kind = "unreadable" THEN [data_file EXCEPT !.readable = FALSE]
                    ELSE IF kind = "undecryptable" THEN [data_file EXCEPT !.key = 0]
                    ELSE [data_file EXCEPT !.text = <<>>]
  /\ vpc' = "damaged"
  /\ UNCHANGED <<variant, vdoc, vres, vcall, keyVars, ioVars, fernet, cliVars>>

\* get_user_data(u)
VGetUserData ==
  /\ vpc \in {"idle", "saved", "damaged", "loaded", "loaded_damaged"}
  /\ \E u \in Usernames :
       /\ vres' = get_user_data(variant, fernet, data_file, u)
       /\ vcall' = [op |-> "get_user_data", user |-> u]
  /\ vpc' = IF Damaged(fernet, data_file) THEN "ran_damaged" ELSE "ran"
  /\ UNCHANGED <<variant, vdoc, keyVars, ioVars, fernet, data_file, cliVars>>

\* logout(u)
VLogout ==
  /\ vpc \in {"idle", "saved", "damaged", "loaded", "loaded_damaged"}
  /\ \E u \in Usernames :
       LET r == logout(variant, fernet, data_file, u) IN
       /\ vres' = [exc |-> r.exc, val |-> BareDict]
       /\ vcall' = [op |-> "logout", user |-> u]
       /\ data_file' = r.file
  /\ vpc' = IF Damaged(fernet, data_file) THEN "ran_damaged" ELSE "ran"
  /\ UNCHANGED <<variant, vdoc, keyVars, ioVars, fernet, cliVars>>

\* login() of tiktok_kit_cli.py with a non-empty username and password.
VLogin ==
  /\ variant = "cli"
  /\ vpc \in {"idle", "saved", "damaged", "loaded", "loaded_damaged"}
  /\ \E u \in Usernames :
       LET r == save_token(fernet, data_file, u, "T", 0) IN
       /\ vres' = [exc |-> r.exc, val |-> BareDict]
       /\ vcall' = [op |-> "login", user |-> u]
       /\ data_file' = r.file
  /\ vpc' = IF Damaged(fernet, data_file) THEN "ran_damaged" ELSE "ran"
  /\ UNCHANGED <<variant, vdoc, keyVars, ioVars, fernet, cliVars>>

NextVault ==
  \/ VEncryptData
  \/ VLoadData
  \/ VDamage
  \/ VGetUserData
  \/ VLogout
  \/ VLogin

\* ------------------------------------------------------------------------
\* eldoore1.1.py: token endpoint, refresh_token_if_needed, callback
\* listener, tiktok_oauth_login and the menu operations around them.
\* ------------------------------------------------------------------------
\* A key the JSON body of the token endpoint does not carry.
Absent == "Absent"

\* What requests.post(.../token/) can come back with: no HTTP answer at all,
\* a 5xx or 4xx status, a 2xx whose JSON body is not an object, or a 2xx
\* with a token object.
Responses ==
  {[kind |-> k, access_token |-> Absent, refresh_token |-> Absent, expires_in |-> <<>>, at |-> 0] :
     k \in {"network_error", "5xx", "4xx", "bad_body"}}
  \cup
  {[kind |-> "2xx", access_token |-> a, refresh_token |-> r, expires_in |-> e, at |-> 0] :
     a \in AccessTokens \cup {Absent}, r \in RefreshTokens \cup {Absent},
     e \in {<<>>} \cup {<<l>> : l \in Lifetimes}}

\* What the same endpoint answers to grant_type=refresh_token (line 167): as
\* above, a refresh token in the body being a newly issued one.
RefreshResponses ==
  {[r EXCEPT !.refresh_token = IF @ = Absent THEN Absent ELSE rt] :
     r \in Responses, rt \in RotatedTokens}

NoResponse ==
  [kind |-> "none", access_token |-> Absent, refresh_token |-> Absent, expires_in |-> <<>>, at |-> 0]

\* The exception requests.post / raise_for_status / the use of resp.json()
\* raises for a response: ConnectionError is a RequestException, HTTPError
\* comes from raise_for_status, and token_data.get on a non-object raises
\* AttributeError.
Raised(r) ==
  IF r.kind = "network_error" THEN "RequestException"
  ELSE IF r.kind \in {"5xx", "4xx"} THEN "HTTPError"
  ELSE IF r.kind = "bad_body" THEN "AttributeError"
  ELSE "none"

\* token_data.get(key): None when the key is absent.
TokenGet(v) == IF v = Absent THEN None ELSE v

\* token_data.get(key, default)
TokenGetDefault(v, default) == IF v = Absent THEN default ELSE v

\* token_data.get("expires_in", 7200)
ExpiresIn(r) == IF r.expires_in = <<>> THEN DefaultExpiresIn ELSE r.expires_in[1]

\* `not access_token or not expires_at` (line 155)
TokenOrExpiryMissing(ud) == ud.tiktok_access_token = None \/ ud.expires_at = <<>>

\* datetime.now() > datetime.fromisoformat(expires_at) (line 157)
Expired(ud, t) == t > FromIsoFormat(ud.expires_at)

\* `if refresh_token:` (line 159)
HasRefreshToken(ud) == ud.refresh_token # None

\* Whether a call of the function body goes to the token endpoint.
SendsRefresh(ud, t) == ~TokenOrExpiryMissing(ud) /\ Expired(ud, t) /\ HasRefreshToken(ud)

\* Variant of CaughtInRefresh without the HTTPError clause, HTTP errors
\* being left to the retry decorator.
CaughtConnectionErrorsOnly(exc) == exc = "RequestException"

\* The except clauses of refresh_token_if_needed (lines 178-183).
CaughtInRefresh(exc) == exc \in {"HTTPError", "RequestException"}

\* Variant of ReturnOnCaught that reports success after a caught error.
ReturnTrueOnCaught == TRUE

\* What those except clauses return.
ReturnOnCaught == FALSE

\* The return value on the paths that send no request (lines 156, 177).
ReturnWithoutRequest(ud) == IF TokenOrExpiryMissing(ud) THEN FALSE ELSE TRUE

\* Variant of RefreshedSession that never rotates the refresh token.
RefreshedSessionWithoutRotation(ud, r, t) ==
  [ud EXCEPT !.tiktok_access_token = TokenGet(r.access_token),
             !.expires_at = IsoFormat(t + ExpiresIn(r))]

\* user_data after lines 170-172.
RefreshedSession(ud, r, t) ==
  [ud EXCEPT !.tiktok_access_token = TokenGet(r.access_token),
             !.refresh_token = TokenGetDefault(r.refresh_token, ud.refresh_token),
             !.expires_at = IsoFormat(t + ExpiresIn(r))]

\* DATA_FILE after lines 173-175.
RefreshedFile(key, file, ud) ==
  LET d == load_data(key, file) IN
  encrypt_data(key, [d EXCEPT !.users = UsersPut(d.users, d.current_user, ud)])

\* The retry decorator: an exception leaving the function body is retried
\* until stop_after_attempt(3) is reached, then RetryError is raised.
RetryAgain(n) == n < StopAfterAttempt

NoServer == [open |-> FALSE, serving |-> FALSE, auth_code |-> None, auth_state |-> None]
NoRequest == [busy |-> FALSE, code |-> None, state |-> None, status |-> 0]
NoRequests == [exchange |-> 0, refresh |-> 0, api |-> 0]

Init ==
  /\ now = 0
  /\ fernet = 1
  /\ key_file = KeyFile(1, 0)
  /\ runs = 1
  /\ key_age = NoKeyAge
  /\ data_file = NoFile
  /\ pc = "menu"
  /\ ret = "none"
  /\ attempt = 1
  /\ username = None
  /\ data = EmptyDocument
  /\ user_data = EmptyDict
  /\ httpd = NoServer
  /\ handler = NoRequest
  /\ callbacks = 0
  /\ auth_code = None
  /\ requests = NoRequests
  /\ resp = NoResponse
  /\ rv = "none"
  /\ outcome = "none"
  /\ entry_file = NoFile
  /\ vin = NoInput
  /\ choice = None
  /\ variant = "eldoore"
  /\ vdoc = EmptyDocument
  /\ vres = NoResult
  /\ vcall = NoCall
  /\ vpc = "unused"

\* The message an operation prints for the way it ended, "" when it prints
\* none (tiktok_oauth_login has no else to `if access_token:`, line 464).
ResultMessage(o) ==
  CASE o = "creds_missing"     -> "Required TikTok credentials missing!"
    [] o = "creds_saved"       -> "Credentials saved!"
    [] o = "token_refreshed"   -> "Token refreshed!"
    [] o = "refresh_failed"    -> "Refresh failed."
    [] o = "account_error"     -> "Account management error"
    [] o = "no_advertiser"     -> "Advertiser ID required."
    [] o = "campaigns_fetched" -> "No campaigns found."
    [] o = "logged_out"        -> "Logged out."
    [] o = "no_credentials"    -> "Set credentials first in menu 9!"
    [] o = "auto_refreshed"    -> "Token auto-refreshed"
    [] o = "state_mismatch"    -> "State mismatch in OAuth callback."
    [] o = "exchange_failed"   -> "error in OAuth"
    [] o = "login_ok"          -> "Login successful!"
    [] o = "video_analyzed"    -> "insights"
    [] o = "no_video_data"     -> "No video data found."
    [] o = "campaign_live"     -> "Campaign live!"
    [] o = "ads_api_error"     -> "error in Ads API"
    [] o = "promotion_refused" -> ""
    [] o = "no_access_token"   -> ""
    [] OTHER                   -> ""

\* What main_menu reads before dispatching (lines 780-781).
CurrentUser == load_data(fernet, data_file).current_user

\* A menu operation begins.
Begin ==
  /\ pc = "menu"
  /\ requests' = NoRequests
  /\ resp' = NoResponse
  /\ entry_file' = data_file

\* The operation returns to the menu: its locals are gone.
Return ==
  /\ pc' = "menu"
  /\ ret' = "none"
  /\ attempt' = 1
  /\ data' = EmptyDocument
  /\ user_data' = EmptyDict
  /\ auth_code' = None
  /\ rv' = "none"

\* An exception no handler catches leaves main_menu: the process ends.
Crash ==
  /\ pc' = "crashed"
  /\ outcome' = "crashed"
  /\ ret' = "none"
  /\ attempt' = 1
  /\ data' = EmptyDocument
  /\ user_data' = EmptyDict
  /\ auth_code' = None
  /\ rv' = "none"

\* Time passes.
Tick ==
  /\ pc # "crashed"
  /\ now < MaxTime
  /\ now' = now + 1
  /\ UNCHANGED <<pc, ret, attempt, username, data, user_data, httpd, handler,
                 callbacks, auth_code, requests, resp, rv, outcome, entry_file,
                 vaultVars, keyVars, ioVars, fernet, data_file>>

\* set_credentials (lines 368-388): the three required values are entered;
\* the secret comes from getpass and may be empty, and then nothing is saved.
SetCredentials ==
  /\ Begin
  /\ \E secret \in {"", "secret"} :
       LET d == load_data(fernet, data_file) IN
       IF secret = ""
         THEN /\ outcome' = "creds_missing"
              /\ UNCHANGED data_file
         ELSE /\ outcome' = "creds_saved"
              /\ data_file' = encrypt_data(fernet, [d EXCEPT !.creds = Creds("app", secret, "adv")])
  /\ UNCHANGED <<now, pc, ret, attempt, username, data, user_data, httpd, handler,
                 callbacks, auth_code, rv, vaultVars, keyVars, ioVars, fernet>>

\* analyze_video (lines 251-283): when the Research API returns the video,
\* the document is loaded, the analysis appended and the document saved;
\* otherwise a message is printed and nothing is written.
AnalyzeVideo ==
  /\ Begin
  /\ CurrentUser # None
  /\ \E found \in {f \in BOOLEAN : f => Len(load_data(fernet, data_file).analyses) < MaxAnalyses} :
       LET d == load_data(fernet, data_file) IN
       IF found
         THEN /\ outcome' = "video_analyzed"
              /\ data_file' = encrypt_data(fernet, [d EXCEPT !.analyses = Append(@, VideoAnalysis)])
         ELSE /\ outcome' = "no_video_data"
              /\ UNCHANGED data_file
  /\ UNCHANGED <<now, pc, ret, attempt, username, data, user_data, httpd, handler,
                 callbacks, auth_code, rv, vaultVars, keyVars, ioVars, fernet>>

\* Python's True / False / a raised RetryError, as the value of rv.
PyBool(b) == IF b THEN "True" ELSE "False"

\* One call of the decorated function body (lines 152-183), the decorator's
\* decision included.
RefreshAttempt ==
  /\ pc = "refresh"
  /\ IF ~SendsRefresh(user_data, now)
       THEN /\ rv' = PyBool(ReturnWithoutRequest(user_data))
            /\ pc' = "refresh_return"
            /\ UNCHANGED <<attempt, user_data, requests, resp, data_file>>
       ELSE \E r \in RefreshResponses :
              /\ requests' = [requests EXCEPT !.refresh = @ + 1]
              /\ resp' = [r EXCEPT !.at = now]
              /\ IF Raised(r) = "none"
                   THEN /\ user_data' = RefreshedSession(user_data, r, now)
                        /\ data_file' = RefreshedFile(fernet, data_file, user_data')
                        /\ rv' = "True"
                        /\ pc' = "refresh_return"
                        /\ UNCHANGED attempt
                   ELSE IF CaughtInRefresh(Raised(r))
                     THEN /\ rv' = PyBool(ReturnOnCaught)
                          /\ pc' = "refresh_return"
                          /\ UNCHANGED <<attempt, user_data, data_file>>
                     ELSE IF RetryAgain(attempt)
                       THEN /\ attempt' = attempt + 1
                            /\ UNCHANGED <<pc, rv, user_data, data_file>>
                       ELSE /\ rv' = "RetryError"
                            /\ pc' = "refresh_return"
                            /\ UNCHANGED <<attempt, user_data, data_file>>
  /\ UNCHANGED <<now, ret, username, data, httpd, handler, callbacks, auth_code,
                 outcome, entry_file, vaultVars, keyVars, ioVars, fernet>>

\* account_management, choice 1 (lines 353-362): the call.
AccountRefresh ==
  /\ Begin
  /\ CurrentUser # None
  /\ username' = CurrentUser
  /\ user_data' = UsersGet(load_data(fernet, data_file).users, CurrentUser)
  /\ pc' = "refresh"
  /\ ret' = "account"
  /\ attempt' = 1
  /\ rv' = "none"
  /\ outcome' = "running"
  /\ UNCHANGED <<now, data, httpd, handler, callbacks, auth_code, vaultVars, keyVars, ioVars, fernet, data_file>>

\* account_management after the call: both results print a message; an
\* exception is caught by `except Exception` (line 365).
AccountRefreshReturn ==
  /\ pc = "refresh_return"
  /\ ret = "account"
  /\ outcome' = IF rv = "True" THEN "token_refreshed"
                ELSE IF rv = "False" THEN "refresh_failed" ELSE "account_error"
  /\ Return
  /\ UNCHANGED <<now, username, httpd, handler, callbacks, requests, resp, entry_file,
                 vaultVars, keyVars, ioVars, fernet, data_file>>

\* performance_tracking (lines 318-319): the call.
PerformanceTracking ==
  /\ Begin
  /\ CurrentUser # None
  /\ username' = CurrentUser
  /\ user_data' = get_user_data("eldoore", fernet, data_file, CurrentUser).val
  /\ pc' = "refresh"
  /\ ret' = "performance"
  /\ attempt' = 1
  /\ rv' = "none"
  /\ outcome' = "running"
  /\ UNCHANGED <<now, data, httpd, handler, callbacks, auth_code, vaultVars, keyVars, ioVars, fernet, data_file>>

\* Variant of RefreshReportedFailure that never sees a failure.
RefreshNeverReportedFailure(v) == FALSE

\* `if not refresh_token_if_needed(user_data):` (lines 319, 648)
RefreshReportedFailure(v) == v = "False"

\* performance_tracking after the call (lines 319-331): on False it returns;
\* on True it sends the campaign request with the session's access token
\* unless no advertiser id is stored; RetryError is not among the exceptions
\* it catches and ends the process.
PerformanceReturn ==
  /\ pc = "refresh_return"
  /\ ret = "performance"
  /\ IF rv = "RetryError"
       THEN /\ Crash
            /\ UNCHANGED requests
       ELSE /\ Return
            /\ IF RefreshReportedFailure(rv)
                 THEN /\ outcome' = "refresh_failed"
                      /\ UNCHANGED requests
                 ELSE IF load_data(fernet, data_file).creds.tiktok_advertiser_id = None
                   THEN /\ outcome' = "no_advertiser"
                        /\ UNCHANGED requests
                   ELSE /\ outcome' = "campaigns_fetched"
                        /\ requests' = [requests EXCEPT !.api = @ + 1]
  /\ UNCHANGED <<now, username, httpd, handler, callbacks, resp, entry_file, vaultVars,
                 keyVars, ioVars, fernet, data_file>>

\* promosi_menu (lines 647-648): the call.
Promotion ==
  /\ Begin
  /\ CurrentUser # None
  /\ username' = CurrentUser
  /\ user_data' = get_user_data("eldoore", fernet, data_file, CurrentUser).val
  /\ pc' = "refresh"
  /\ ret' = "promotion"
  /\ attempt' = 1
  /\ rv' = "none"
  /\ outcome' = "running"
  /\ UNCHANGED <<now, data, httpd, handler, callbacks, auth_code, vaultVars, keyVars, ioVars, fernet, data_file>>

\* promosi_menu after the call (lines 648-659): on False it returns without
\* a message; on True it loads the document, builds the headers from the
\* session it holds and asks for target, video and budget.  RetryError is
\* not among the exceptions it catches.
PromotionReturn ==
  /\ pc = "refresh_return"
  /\ ret = "promotion"
  /\ IF rv = "RetryError" THEN Crash
     ELSE IF RefreshReportedFailure(rv) THEN Return /\ outcome' = "promotion_refused"
     ELSE IF load_data(fernet, data_file).creds.tiktok_advertiser_id = None
       THEN Return /\ outcome' = "no_advertiser"
     ELSE /\ pc' = "promo_input"
          /\ data' = load_data(fernet, data_file)
          /\ UNCHANGED <<ret, attempt, user_data, auth_code, rv, outcome>>
  /\ UNCHANGED <<now, username, httpd, handler, callbacks, requests, resp, entry_file,
                 vaultVars, keyVars, ioVars, fernet, data_file>>

\* promosi_menu once the three values are entered (lines 660-706): the
\* campaign, ad group and ad requests carry the access token of the session
\* in user_data; when all three succeed the promotion is appended to the
\* analyses of the document loaded at line 650 and the document saved; a
\* failing request is caught and printed.
PromotionCreate ==
  /\ pc = "promo_input"
  /\ \E created \in {c \in BOOLEAN : c => Len(data.analyses) < MaxAnalyses} :
       IF created
         THEN /\ requests' = [requests EXCEPT !.api = @ + 3]
              /\ outcome' = "campaign_live"
              /\ data_file' = encrypt_data(fernet,
                    [data EXCEPT !.analyses = Append(@, [type |-> "promotion"])])
         ELSE /\ requests' = [requests EXCEPT !.api = @ + 1]
              /\ outcome' = "ads_api_error"
              /\ UNCHANGED data_file
  /\ Return
  /\ UNCHANGED <<now, username, httpd, handler, callbacks, resp, entry_file, vaultVars,
                 keyVars, ioVars, fernet>>

\* logout(current_user), from menu choice 7 or account_management choice 2.
Logout ==
  /\ Begin
  /\ CurrentUser # None
  /\ username' = CurrentUser
  /\ data_file' = logout("eldoore", fernet, data_file, CurrentUser).file
  /\ outcome' = "logged_out"
  /\ UNCHANGED <<now, pc, ret, attempt, data, user_data, httpd, handler, callbacks,
                 auth_code, rv, vaultVars, keyVars, ioVars, fernet>>

\* ---------------------------------------------------- tiktok_oauth_login
\* Lines 421-431: load, credentials check, and for a stored current user
\* the call of refresh_token_if_needed.
Login ==
  /\ Begin
  /\ LET d == load_data(fernet, data_file) IN
     /\ IF d.creds.tiktok_app_id = None
          THEN /\ outcome' = "no_credentials"
               /\ UNCHANGED <<pc, ret, attempt, username, data, user_data, rv>>
          ELSE /\ outcome' = "running"
               /\ data' = d
               /\ rv' = "none"
               /\ IF d.current_user # None
                    THEN /\ username' = d.current_user
                         /\ user_data' = get_user_data("eldoore", fernet, data_file, d.current_user).val
                         /\ pc' = "refresh"
                         /\ ret' = "login"
                         /\ attempt' = 1
                    ELSE /\ pc' = "login_input"
                         /\ UNCHANGED <<ret, attempt, username, user_data>>
  /\ UNCHANGED <<now, httpd, handler, callbacks, auth_code, vaultVars, keyVars, ioVars, fernet, data_file>>

\* Lines 429-431 after the call: True ends the login; False goes on to a
\* full login; the call is outside the try, so RetryError ends the process.
LoginRefreshReturn ==
  /\ pc = "refresh_return"
  /\ ret = "login"
  /\ IF rv = "True" THEN Return /\ outcome' = "auto_refreshed"
     ELSE IF rv = "False"
       THEN /\ pc' = "login_input"
            /\ user_data' = EmptyDict
            /\ rv' = "none"
            /\ attempt' = 1
            /\ ret' = "none"
            /\ UNCHANGED <<outcome, data, auth_code>>
     ELSE Crash
  /\ UNCHANGED <<now, username, httpd, handler, callbacks, requests, resp, entry_file,
                 vaultVars, keyVars, ioVars, fernet, data_file>>

\* Lines 433-438 and start_local_server up to server_thread.start()
\* (lines 411-416): the username is entered, the socket is bound and
\* listening, auth_code and auth_state are None, the thread is started.
LoginStartServer ==
  /\ pc = "login_input"
  /\ \E u \in Usernames : username' = u
  /\ httpd' = [open |-> TRUE, serving |-> TRUE, auth_code |-> None, auth_state |-> None]
  /\ handler' = NoRequest
  /\ callbacks' = 0
  /\ pc' = "login_server"
  /\ UNCHANGED <<now, ret, attempt, data, user_data, auth_code, requests, resp, rv,
                 outcome, entry_file, vaultVars, keyVars, ioVars, fernet, data_file>>

\* `return httpd` inside the with block (lines 411, 417): leaving the block
\* calls server_close(), which closes the listening socket.
LoginServerReturn ==
  /\ pc = "login_server"
  /\ httpd' = [httpd EXCEPT !.open = FALSE]
  /\ pc' = "login_wait"
  /\ UNCHANGED <<now, ret, attempt, username, data, user_data, handler, callbacks, auth_code,
                 requests, resp, rv, outcome, entry_file, vaultVars, keyVars, ioVars, fernet, data_file>>

\* Variant of CodeAndState that asks for the code alone.
CodeOnly(code, state) == code # None

\* `if code and state:` (line 397).  parse_qs drops blank values, so an
\* empty parameter reads as None like a missing one.
CodeAndState(code, state) == code # None /\ state # None

\* An inbound request reaches OAuthCallbackHandler.do_GET (lines 392-407):
\* accepted only while the socket is open and the thread is serving, one
\* request at a time.  handler holds the parameters of the request being
\* served or served last.  A request with code and state stores the code
\* (line 398); any other is answered 400.
Callback ==
  /\ httpd.open /\ httpd.serving /\ ~handler.busy
  /\ callbacks < MaxCallbacks
  /\ callbacks' = callbacks + 1
  /\ \E code \in AuthCodes \cup {None}, state \in Usernames \cup {None} :
       IF CodeAndState(code, state)
         THEN /\ httpd' = [httpd EXCEPT !.auth_code = code]
              /\ handler' = [busy |-> TRUE, code |-> code, state |-> state, status |-> 0]
         ELSE /\ handler' = [busy |-> FALSE, code |-> code, state |-> state, status |-> 400]
              /\ UNCHANGED httpd
  /\ UNCHANGED <<now, pc, ret, attempt, username, data, user_data, auth_code, requests, resp,
                 rv, outcome, entry_file, vaultVars, keyVars, ioVars, fernet, data_file>>

\* The handler goes on: it stores the state (line 399) and answers 200.
HandlerStoreState ==
  /\ handler.busy
  /\ httpd' = [httpd EXCEPT !.auth_state = handler.state]
  /\ handler' = [handler EXCEPT !.busy = FALSE, !.status = 200]
  /\ UNCHANGED <<now, pc, ret, attempt, username, data, user_data, callbacks, auth_code,
                 requests, resp, rv, outcome, entry_file, vaultVars, keyVars, ioVars, fernet, data_file>>

\* `while not httpd.auth_code: time.sleep(1)` (lines 441-442) is left once a
\* code is seen.
LoginSeeCode ==
  /\ pc = "login_wait"
  /\ httpd.auth_code # None
  /\ pc' = "login_state"
  /\ UNCHANGED <<now, ret, attempt, username, data, user_data, httpd, handler, callbacks,
                 auth_code, requests, resp, rv, outcome, entry_file, vaultVars, keyVars, ioVars, fernet, data_file>>

\* Variant of StateMismatch that accepts any captured state.
StateNeverMismatches(state, u) == FALSE

\* `if httpd.auth_state != username` (lines 444-446).
StateMismatch(state, u) == state # u

\* The server a returning tiktok_oauth_login leaves behind when it has not
\* called shutdown(): the local `httpd` is gone and with it every reader of
\* what the server captured or still captures; its socket is closed and
\* its thread goes on serving.
LeakedServer == [open |-> FALSE, serving |-> TRUE, auth_code |-> None, auth_state |-> None]

LoginCheckState ==
  /\ pc = "login_state"
  /\ IF StateMismatch(httpd.auth_state, username)
       THEN /\ Return
            /\ outcome' = "state_mismatch"
            /\ httpd' = LeakedServer
            /\ handler' = NoRequest
            /\ callbacks' = 0
       ELSE /\ pc' = "login_take"
            /\ UNCHANGED <<outcome, ret, attempt, data, user_data, auth_code, rv,
                           httpd, handler, callbacks>>
  /\ UNCHANGED <<now, username, requests, resp, entry_file,
                 vaultVars, keyVars, ioVars, fernet, data_file>>

\* Lines 448-449: the code is read and httpd.shutdown() waits for the
\* serving thread to leave its loop, which it does between requests; no
\* request is served after that.
LoginTakeCode ==
  /\ pc = "login_take"
  /\ ~handler.busy
  /\ auth_code' = httpd.auth_code
  /\ httpd' = [httpd EXCEPT !.serving = FALSE]
  /\ handler' = NoRequest
  /\ callbacks' = 0
  /\ pc' = "login_exchange"
  /\ UNCHANGED <<now, ret, attempt, username, data, user_data, requests,
                 resp, rv, outcome, entry_file, vaultVars, keyVars, ioVars, fernet, data_file>>

\* The session tiktok_oauth_login builds (lines 465-471).
NewSession(r, t) ==
  Session(TokenGet(r.access_token), TokenGet(r.refresh_token), IsoFormat(t + ExpiresIn(r)), t)

\* Variant of LoggedIn that stores the session and leaves current_user alone.
LoggedInWithoutCurrentUser(d, u, sess) == [d EXCEPT !.users = UsersPut(d.users, u, sess)]

\* Variant of LoggedIn that sets current_user and stores no session.
LoggedInWithoutSession(d, u, sess) == [d EXCEPT !.current_user = u]

\* The document it saves (lines 472-474): the one loaded at line 421 with
\* the session stored under the username and current_user set.
LoggedIn(d, u, sess) == [d EXCEPT !.users = UsersPut(d.users, u, sess), !.current_user = u]

\* Lines 459-481: the exchange request and what follows it; the server,
\* shut down, goes with the local `httpd`.  Every
\* exception is caught and printed; a 2xx without access_token prints
\* nothing and stores nothing.
LoginExchange ==
  /\ pc = "login_exchange"
  /\ \E r \in Responses :
       /\ requests' = [requests EXCEPT !.exchange = @ + 1]
       /\ resp' = [r EXCEPT !.at = now]
       /\ IF Raised(r) # "none"
            THEN outcome' = "exchange_failed" /\ UNCHANGED data_file
            ELSE IF TokenGet(r.access_token) = None
              THEN outcome' = "no_access_token" /\ UNCHANGED data_file
              ELSE /\ outcome' = "login_ok"
                   /\ data_file' = encrypt_data(fernet, LoggedIn(data, username, NewSession(r, now)))
  /\ Return
  /\ httpd' = NoServer
  /\ UNCHANGED <<now, username, handler, callbacks, entry_file, vaultVars, keyVars, ioVars, fernet>>

Next ==
  \/ Tick
  \/ SetCredentials
  \/ AccountRefresh
  \/ AccountRefreshReturn
  \/ PerformanceTracking
  \/ PerformanceReturn
  \/ Promotion
  \/ PromotionReturn
  \/ PromotionCreate
  \/ Logout
  \/ AnalyzeVideo
  \/ RefreshAttempt
  \/ Login
  \/ LoginRefreshReturn
  \/ LoginStartServer
  \/ LoginServerReturn
  \/ Callback
  \/ HandlerStoreState
  \/ LoginSeeCode
  \/ LoginCheckState
  \/ LoginTakeCode
  \/ LoginExchange

Spec == Init /\ [][Next]_vars

\* The steps the program takes by itself once it can: the foreground thread
\* runs on, the serving thread finishes the request it is handling, HTTP
\* requests come back, the clock advances.  Requests to the listener and
\* the user's menu choices are not the program's to make.
Fairness ==
  /\ WF_vars(Tick)
  /\ WF_vars(RefreshAttempt)
  /\ WF_vars(AccountRefreshReturn)
  /\ WF_vars(PerformanceReturn)
  /\ WF_vars(PromotionReturn)
  /\ WF_vars(LoginRefreshReturn)
  /\ WF_vars(LoginStartServer)
  /\ WF_vars(LoginServerReturn)
  /\ WF_vars(HandlerStoreState)
  /\ WF_vars(LoginSeeCode)
  /\ WF_vars(LoginCheckState)
  /\ WF_vars(LoginTakeCode)
  /\ WF_vars(LoginExchange)

SpecFair == Spec /\ Fairness

\* ------------------------------------- a vault left behind by TTKv1.py
\* TTKv1.py keeps its vault in the same DATA_FILE under the same KEY_FILE
\* (lines 20-21 of both files).  The document it leaves after
\* set_credentials and a successful tiktok_oauth_login for alice.
LegacyDocument ==
  [keys |-> OtherKeys \cup {"creds", "current_user"},
   users |-> UsersPut(<<>>, "alice", BasicSession("T", 0)),
   analyses |-> <<>>,
   creds |-> Creds("app", "secret", "adv"),
   current_user |-> "alice"]

InitLegacy ==
  /\ now = 0
  /\ fernet = 1
  /\ key_file = KeyFile(1, 0)
  /\ runs = 1
  /\ key_age = NoKeyAge
  /\ data_file = encrypt_data(1, LegacyDocument)
  /\ pc = "menu"
  /\ ret = "none"
  /\ attempt = 1
  /\ username = None
  /\ data = EmptyDocument
  /\ user_data = EmptyDict
  /\ httpd = NoServer
  /\ handler = NoRequest
  /\ callbacks = 0
  /\ auth_code = None
  /\ requests = NoRequests
  /\ resp = NoResponse
  /\ rv = "none"
  /\ outcome = "none"
  /\ entry_file = data_file
  /\ vin = NoInput
  /\ choice = None
  /\ variant = "eldoore"
  /\ vdoc = EmptyDocument
  /\ vres = NoResult
  /\ vcall = NoCall
  /\ vpc = "unused"

SpecLegacy == InitLegacy /\ [][Next]_vars

\* ------------------------------------------------------------- TTKv1.py
\* The menu operations of TTKv1.py that write the vault.  Its login has no
\* listener: the authorization code is typed in.
TtkDocument == load_data_other(fernet, data_file).val

\* main_menu, lines 436-437: token of the current user.
TtkToken ==
  IF TtkDocument.current_user = None THEN None
  ELSE get_user_data("ttk", fernet, data_file, TtkDocument.current_user).val.tiktok_access_token

TtkOthersUnchanged ==
  UNCHANGED <<ret, attempt, user_data, httpd, handler, callbacks, auth_code, rv,
              entry_file, vaultVars, keyVars, ioVars, fernet>>

\* set_credentials (lines 184-203)
TtkSetCredentials ==
  /\ pc = "menu"
  /\ \E secret \in {"", "secret"} :
       IF secret = ""
         THEN /\ outcome' = "creds_missing"
              /\ UNCHANGED data_file
         ELSE /\ outcome' = "creds_saved"
              /\ data_file' = encrypt_data(fernet, [TtkDocument EXCEPT !.creds = Creds("app", secret, "adv"),
                                                                       !.keys = @ \cup {"creds"}])
  /\ UNCHANGED <<now, pc, username, data, requests, resp>>
  /\ TtkOthersUnchanged

\* tiktok_oauth_login up to the prompt for the code (lines 239-261): with
\* no current user the username typed in is stored as current_user and the
\* document saved, before any code is exchanged.
TtkLogin ==
  /\ pc = "menu"
  /\ requests' = NoRequests
  /\ resp' = NoResponse
  /\ LET d == TtkDocument IN
     IF d.creds.tiktok_app_id = None \/ d.creds.tiktok_app_secret = None
       THEN /\ outcome' = "no_credentials"
            /\ UNCHANGED <<pc, username, data, data_file>>
       ELSE /\ outcome' = "running"
            /\ pc' = "ttk_code"
            /\ IF d.current_user = None
                 THEN \E u \in Usernames :
                        /\ username' = u
                        /\ data' = [d EXCEPT !.current_user = u, !.keys = @ \cup {"current_user"}]
                        /\ data_file' = encrypt_data(fernet, data')
                 ELSE /\ username' = d.current_user
                      /\ data' = d
                      /\ UNCHANGED data_file
  /\ UNCHANGED now
  /\ TtkOthersUnchanged

\* The rest of tiktok_oauth_login (lines 262-302): the code typed in, the
\* exchange request, the validation request.  RequestException (HTTPError
\* included) is caught; anything else leaves main_menu.
TtkExchange ==
  /\ pc = "ttk_code"
  /\ \E code \in AuthCodes \cup {""}, r \in Responses, valid \in BOOLEAN :
       IF code = ""
         THEN /\ outcome' = "code_invalid"
              /\ pc' = "menu"
              /\ UNCHANGED <<requests, resp, data_file>>
         ELSE /\ requests' = [requests EXCEPT !.exchange = @ + 1]
              /\ resp' = [r EXCEPT !.at = now]
              /\ IF Raised(r) \in {"HTTPError", "RequestException"}
                   THEN outcome' = "exchange_failed" /\ pc' = "menu" /\ UNCHANGED data_file
                   ELSE IF Raised(r) # "none"
                     THEN outcome' = "crashed" /\ pc' = "crashed" /\ UNCHANGED data_file
                   ELSE IF TokenGet(r.access_token) = None
                     THEN outcome' = "no_access_token" /\ pc' = "menu" /\ UNCHANGED data_file
                   ELSE IF ~valid
                     THEN outcome' = "token_invalid" /\ pc' = "menu" /\ UNCHANGED data_file
                   ELSE /\ outcome' = "login_ok"
                        /\ pc' = "menu"
                        /\ data_file' = encrypt_data(fernet,
                              LoggedIn(data, username, BasicSession(TokenGet(r.access_token), now)))
  /\ data' = EmptyDocument
  /\ UNCHANGED <<now, username>>
  /\ TtkOthersUnchanged

\* account_management, choice 1 (lines 164-179): the tier is set in the
\* entry of the user and the document saved.
TtkUpgradeTier ==
  /\ pc = "menu"
  /\ TtkDocument.current_user # None /\ TtkToken # None
  /\ LET d == TtkDocument
         u == d.current_user
     IN data_file' = encrypt_data(fernet,
          [d EXCEPT !.users = UsersPut(d.users, u, [UsersGet(d.users, u) EXCEPT !.tier = "pro"])])
  /\ outcome' = "tier_upgraded"
  /\ UNCHANGED <<now, pc, username, data, requests, resp>>
  /\ TtkOthersUnchanged

\* analyze_video (lines 140-154)
TtkAnalyzeVideo ==
  /\ pc = "menu"
  /\ TtkDocument.current_user # None /\ TtkToken # None
  /\ Len(TtkDocument.analyses) < MaxAnalyses
  /\ data_file' = encrypt_data(fernet, [TtkDocument EXCEPT !.analyses = Append(@, VideoAnalysis)])
  /\ outcome' = "video_analyzed"
  /\ UNCHANGED <<now, pc, username, data, requests, resp>>
  /\ TtkOthersUnchanged

\* logout(current_user), menu choice 7 (line 460) or account_management
\* choice 2.
TtkLogout ==
  /\ pc = "menu"
  /\ TtkDocument.current_user # None
  /\ data_file' = logout("ttk", fernet, data_file, TtkDocument.current_user).file
  /\ outcome' = "logged_out"
  /\ UNCHANGED <<now, pc, username, data, requests, resp>>
  /\ TtkOthersUnchanged

NextTTK ==
  \/ Tick
  \/ TtkSetCredentials
  \/ TtkLogin
  \/ TtkExchange
  \/ TtkUpgradeTier
  \/ TtkAnalyzeVideo
  \/ TtkLogout

\* TTKv1.py started with no vault file.
SpecTTK == Init /\ [][NextTTK]_vars

\* ------------------------------------------------- key setup across runs
\* Seconds between the end of one run and the next start: none, one, the
\* rotation age, the rotation age and one.
Elapsed == {0, 1, KeyMaxAge, KeyMaxAge + 1}

\* The program is started: the key setup at import time runs and leaves the
\* module-level fernet.
Startup ==
  /\ vpc \in {"stopped", "stopped_saved"}
  /\ runs < MaxRuns
  /\ runs' = runs + 1
  /\ \E d \in Elapsed :
       /\ now' = now + d
       /\ key_age' = IF key_file.exists THEN now' - key_file.mtime ELSE NoKeyAge
       /\ key_file' = manage_encryption_key(variant, key_file, now', runs')
  /\ fernet' = key_file'.key
  /\ vpc' = IF vpc = "stopped_saved" THEN "started_saved" ELSE "idle"
  /\ UNCHANGED <<pc, ret, attempt, username, data, user_data, httpd, handler, callbacks,
                 auth_code, requests, resp, rv, outcome, entry_file,
                 variant, vdoc, vres, vcall, ioVars, data_file>>

\* The program ends (menu choice 0); what it last did was to save vdoc, or
\* something else.
Exit ==
  /\ vpc \in {"idle", "saved", "reloaded_next_run"}
  /\ vpc' = IF vpc = "saved" THEN "stopped_saved" ELSE "stopped"
  /\ UNCHANGED <<variant, vdoc, vres, vcall, keyVars, ioVars, fernet, data_file, cliVars>>

\* load_data() as the first vault call of a run that follows one which
\* ended after saving vdoc.
LoadInNextRun ==
  /\ vpc = "started_saved"
  /\ vres' = LoadData(variant, fernet, data_file)
  /\ vpc' = "reloaded_next_run"
  /\ UNCHANGED <<variant, vdoc, vcall, keyVars, ioVars, fernet, data_file, cliVars>>

\* Nothing has been started yet: no KEY_FILE, no DATA_FILE.
InitKey ==
  /\ variant \in Variants
  /\ vdoc \in {d \in DocumentsOf(variant) : WellFormed(variant, d)}
  /\ vres = NoResult
  /\ vcall = NoCall
  /\ vpc = "stopped"
  /\ fernet = 0
  /\ key_file = NoKeyFile
  /\ runs = 0
  /\ key_age = NoKeyAge
  /\ data_file = NoFile
  /\ now = 0
  /\ pc = "unused"
  /\ ret = "none"
  /\ attempt = 1
  /\ username = None
  /\ data = EmptyDocument
  /\ user_data = EmptyDict
  /\ httpd = NoServer
  /\ handler = NoRequest
  /\ callbacks = 0
  /\ auth_code = None
  /\ requests = NoRequests
  /\ resp = NoResponse
  /\ rv = "none"
  /\ outcome = "none"
  /\ entry_file = NoFile
  /\ vin = NoInput
  /\ choice = None

NextKey ==
  \/ Startup
  \/ Exit
  \/ VEncryptData
  \/ LoadInNextRun

SpecKey == InitKey /\ [][NextKey]_vars

\* ---------------------------------------------- the vault functions alone
InitVault ==
  /\ VaultInit
  /\ now = 0
  /\ pc = "unused"
  /\ ret = "none"
  /\ attempt = 1
  /\ username = None
  /\ data = EmptyDocument
  /\ user_data = EmptyDict
  /\ httpd = NoServer
  /\ handler = NoRequest
  /\ callbacks = 0
  /\ auth_code = None
  /\ requests = NoRequests
  /\ resp = NoResponse
  /\ rv = "none"
  /\ outcome = "none"
  /\ entry_file = NoFile
  /\ vin = NoInput
  /\ choice = None

SpecVault == InitVault /\ [][NextVault]_vars

\* ---------------------------------------------------------- validate_input
\* Characters a line is made of: a blank, a digit, a letter.
Chars == {" ", "7", "x"}

\* Lines input() returns.
Lines == UNION {[1..n -> Chars] : n \in 0..MaxInputLen}

\* str.strip(): leading and trailing whitespace removed.
RECURSIVE LStrip(_)
LStrip(s) == IF s # <<>> /\ Head(s) = " " THEN LStrip(Tail(s)) ELSE s

RECURSIVE RStrip(_)
RStrip(s) == IF s # <<>> /\ s[Len(s)] = " " THEN RStrip(SubSeq(s, 1, Len(s) - 1)) ELSE s

Strip(s) == RStrip(LStrip(s))

\* The validators callers pass: none, a test with str.isdigit() (line 662,
\* line 822), a substring test such as 'tiktok.com' in x (line 661).
Validators == {None, "isdigit", "contains"}

\* validator(value); "".isdigit() is False.
Accepts(validator, value) ==
  IF validator = "isdigit"
    THEN value # <<>> /\ \A i \in 1..Len(value) : value[i] = "7"
    ELSE \E i \in 1..Len(value) : value[i] = "x"

\* Variant of MissingRequired that lets an empty value through.
NeverMissing(required, value) == FALSE

\* `if required and not value:` (line 189)
MissingRequired(required, value) == required /\ value = <<>>

\* `if validator and not validator(value):` (line 192)
Invalid(validator, value) == validator # None /\ ~Accepts(validator, value)

\* A caller calls validate_input(prompt, validator, required).
ValidateInputCall ==
  /\ vin.pc \in {"idle", "returned"}
  /\ \E v \in Validators, r \in BOOLEAN :
       vin' = [pc |-> "asking", validator |-> v, required |-> r, again |-> FALSE,
               entered |-> <<>>, value |-> <<>>]
  /\ UNCHANGED <<cliVars, vaultVars, keyVars, choice, fernet, data_file>>

\* One pass of the loop of validate_input (lines 187-195): a line is read
\* and stripped; a missing or invalid value prints a message and the loop
\* asks again, any other value is returned.
ValidateInputEnter ==
  /\ vin.pc = "asking"
  /\ \E line \in Lines :
       LET value == Strip(line) IN
       IF MissingRequired(vin.required, value) \/ Invalid(vin.validator, value)
         THEN vin' = [vin EXCEPT !.entered = line, !.again = TRUE]
         ELSE vin' = [vin EXCEPT !.entered = line, !.value = value, !.pc = "returned"]
  /\ UNCHANGED <<cliVars, vaultVars, keyVars, choice, fernet, data_file>>

NextInput ==
  \/ ValidateInputCall
  \/ ValidateInputEnter

SpecInput == Init /\ [][NextInput]_vars

\* ------------------------------------------- main_menu of tiktok_kit_cli.py
\* Names typed at the login prompt; "current_user" is the key main_menu
\* looks up.
CliUsernames == Usernames \cup {"current_user"}
Passwords == {"pw"}

\* base64.b64encode(f"{username}:{password}".encode()).decode() (line 113)
Base64Token(u, p) ==
  CASE u = "alice" -> "YWxpY2U6cHc="
    [] u = "bob" -> "Ym9iOnB3"
    [] OTHER -> "Y3VycmVudF91c2VyOnB3"

\* dict.get(key) on a users entry
DictGet(d, k) == IF k \in DOMAIN d THEN d[k] ELSE None

\* `username` as line 355 sets it at the top of every iteration:
\* get_user_data("current_user").get("username"), the "username" key of the
\* users entry named current_user.
MenuUser(key, file) ==
  DictGet(get_user_data("cli", key, file, "current_user").val, "username")

\* Menu choices that run only `and username` (lines 359-372).
ProtectedChoices == {"2", "3", "4", "5", "6", "7", "8"}

\* An iteration with choice 1 (lines 355-358, login lines 107-119): with a
\* username and a password the token is saved and the pair returned, else
\* (None, None); the result replaces the local username.
CliLogin ==
  /\ vpc = "cli_menu"
  /\ choice' = "1"
  /\ \E u \in CliUsernames \cup {""}, p \in Passwords \cup {""} :
       IF u # "" /\ p # ""
         THEN /\ data_file' = save_token(fernet, data_file, u, Base64Token(u, p), now).file
              /\ username' = u
              /\ vcall' = [op |-> "login", user |-> u]
              /\ outcome' = "login_ok"
         ELSE /\ username' = None
              /\ vcall' = NoCall
              /\ outcome' = "login_failed"
              /\ UNCHANGED data_file
  /\ UNCHANGED <<now, pc, ret, attempt, data, user_data, httpd, handler, callbacks, auth_code,
                 requests, resp, rv, entry_file, variant, vdoc, vres, vpc, keyVars, vin, fernet>>

\* An iteration with one of the choices 2-8 (lines 355, 359-372, 378-379): the
\* operation runs for the username line 355 has just set, and without one
\* the choice is answered as invalid.  Of the operations only logout
\* (lines 121-126) is followed into the vault.
CliProtected ==
  /\ vpc = "cli_menu"
  /\ \E c \in ProtectedChoices :
       LET user == MenuUser(fernet, data_file) IN
       /\ choice' = c
       /\ username' = user
       /\ IF user # None
            THEN /\ vcall' = [op |-> c, user |-> user]
                 /\ outcome' = "ran"
                 /\ data_file' = IF c = "7" THEN logout("cli", fernet, data_file, user).file
                                 ELSE data_file
            ELSE /\ vcall' = NoCall
                 /\ outcome' = "invalid_choice"
                 /\ UNCHANGED data_file
  /\ UNCHANGED <<now, pc, ret, attempt, data, user_data, httpd, handler, callbacks, auth_code,
                 requests, resp, rv, entry_file, variant, vdoc, vres, vpc, keyVars, vin, fernet>>

\* tiktok_kit_cli.py started on a first run.
InitCli ==
  /\ variant = "cli"
  /\ vdoc = EmptyDocument
  /\ vres = NoResult
  /\ vcall = NoCall
  /\ vpc = "cli_menu"
  /\ fernet = 1
  /\ key_file = KeyFile(1, 0)
  /\ runs = 1
  /\ key_age = NoKeyAge
  /\ data_file = NoFile
  /\ now = 0
  /\ pc = "unused"
  /\ ret = "none"
  /\ attempt = 1
  /\ username = None
  /\ data = EmptyDocument
  /\ user_data = EmptyDict
  /\ httpd = NoServer
  /\ handler = NoRequest
  /\ callbacks = 0
  /\ auth_code = None
  /\ requests = NoRequests
  /\ resp = NoResponse
  /\ rv = "none"
  /\ outcome = "none"
  /\ entry_file = NoFile
  /\ vin = NoInput
  /\ choice = None

NextCli ==
  \/ Tick
  \/ CliLogin
  \/ CliProtected

SpecCli == InitCli /\ [][NextCli]_vars

\* ========================================================================
\* Properties
\* ========================================================================
Transient == {"network_error", "5xx"}

\* The session stored for the user of the operation in progress.
StoredSession == UsersGet(load_data(fernet, data_file).users, username)

\* A step in which refresh_token_if_needed returns to its caller.
RefreshReturns == pc = "refresh" /\ pc' = "refresh_return"

\* C1: in tiktok_oauth_login, when the state captured from the callback
\* differs from the username, the login ends with the state-mismatch
\* outcome, no exchange request has been sent, and DATA_FILE is what it was
\* when the login began (no session created or overwritten, current_user
\* as before).
C1_StateMismatchRejected ==
  [][(pc = "login_state" /\ pc' # "login_state" /\ httpd.auth_state # username)
       => /\ pc' = "menu"
          /\ outcome' = "state_mismatch"
          /\ requests'.exchange = 0
          /\ data_file' = entry_file
          /\ load_data(fernet, data_file') = load_data(fernet, entry_file)]_vars

C1_Witness ==
  /\ pc = "menu"
  /\ outcome = "state_mismatch"
  /\ CurrentUser \in Usernames
  /\ username # CurrentUser

\* C2: encrypt_data(D) followed immediately by load_data() under the same
\* key returns a document equal to D.
C2_RoundTrip ==
  vpc = "reloaded" => (vres.exc = "none" /\ vres.val = vdoc)

C2_Witness ==
  /\ vpc = "reloaded"
  /\ variant \in {"eldoore", "ttk"}
  /\ vdoc.current_user \in DOMAIN vdoc.users
  /\ vdoc.creds # NoCreds
  /\ \E u \in DOMAIN vdoc.users : vdoc.users[u].refresh_token = None

\* C3: in every variant, load_data on a file that exists but is unreadable,
\* undecryptable or not JSON raises nothing and returns the document it
\* returns for a missing file, with the users mapping present, and the
\* operations run on such a file do not fail.
C3_CorruptLoadIsFirstRun ==
  /\ vpc = "loaded_damaged" =>
       /\ vres.exc = "none"
       /\ vres.val = LoadData(variant, fernet, NoFile).val
       /\ "users" \in vres.val.keys
  /\ vpc = "ran_damaged" => vres.exc = "none"

\* C4: in tiktok_oauth_login, after an exchange answered 2xx with access
\* token T and expires_in L, the vault holds users[username] with access
\* token T, the returned refresh token and expiry = time of exchange + L,
\* and current_user = username.
C4_LoginStoresSession ==
  (pc = "menu" /\ requests.exchange = 1 /\ resp.kind = "2xx" /\ resp.access_token # Absent)
    => /\ outcome = "login_ok"
       /\ LET d == load_data(fernet, data_file) IN
          /\ username \in DOMAIN d.users
          /\ d.users[username].tiktok_access_token = resp.access_token
          /\ d.users[username].refresh_token = TokenGet(resp.refresh_token)
          /\ resp.expires_in # <<>> =>
               d.users[username].expires_at = IsoFormat(resp.at + resp.expires_in[1])
          /\ d.current_user = username

C4_Witness ==
  /\ pc = "menu"
  /\ outcome = "login_ok"
  /\ resp.expires_in = <<1>>
  /\ resp.refresh_token \in RefreshTokens
  /\ resp.at > 0
  /\ DOMAIN load_data(fernet, data_file).users = Usernames

\* C5: refresh_token_if_needed called on a session whose expiry is set and
\* lies in the future reports success, sends no request, leaves the session
\* as it was and does not write the vault.
C5_FutureExpiryIsNoOp ==
  [][(RefreshReturns /\ user_data.expires_at # <<>> /\ now < FromIsoFormat(user_data.expires_at))
       => /\ rv' = "True"
          /\ requests' = requests
          /\ user_data' = user_data
          /\ data_file' = data_file]_vars

\* C6: when the token endpoint fails transiently, one call of
\* refresh_token_if_needed sends at most 3 requests and ends with a failure
\* result.
C6_TransientFailureBounded ==
  /\ pc \in {"refresh", "refresh_return"} => requests.refresh <= 3
  /\ (pc \in {"refresh", "refresh_return"} /\ resp.kind \in Transient)
       => (pc = "refresh_return" /\ rv = "False")

C6_Witness ==
  /\ pc = "refresh_return"
  /\ rv = "False"
  /\ resp.kind = "5xx"
  /\ requests.refresh >= 1

\* C7: a transient failure of the token endpoint is retried, and a failure
\* is returned to the caller only after all 3 attempts are used up.
C7_TransientFailureRetried ==
  (pc = "refresh_return" /\ rv = "False" /\ resp.kind \in Transient)
    => requests.refresh = StopAfterAttempt

\* C8: a 4xx answer to a refresh request is not retried: it is the only
\* request of the call when it answers the first one, the call returns
\* failure, and the stored session and the caller's session are unchanged.
C8_RejectedRefreshIsTerminal ==
  (pc \in {"refresh", "refresh_return"} /\ resp.kind = "4xx")
    => /\ pc = "refresh_return"
       /\ rv = "False"
       /\ requests.refresh = attempt
       /\ data_file = entry_file
       /\ user_data = StoredSession

C8_Witness ==
  /\ pc = "refresh_return"
  /\ resp.kind = "4xx"
  /\ requests.refresh = 1
  /\ user_data.refresh_token \in RefreshTokens

\* C9: refresh_token_if_needed called on a session that has an access token
\* but no expiry reports success, leaves the session as it was and sends no
\* request.
C9_NoExpiryIsValid ==
  [][(RefreshReturns /\ user_data.tiktok_access_token # None /\ user_data.expires_at = <<>>)
       => /\ rv' = "True"
          /\ user_data' = user_data
          /\ requests' = requests]_vars

\* C10: refresh_token_if_needed called on a session whose expiry has passed
\* and that has no refresh token returns failure.
C10_ExpiredWithoutRefreshTokenFails ==
  [][(RefreshReturns /\ ~TokenOrExpiryMissing(user_data) /\ Expired(user_data, now)
        /\ user_data.refresh_token = None)
       => rv' = "False"]_vars

\* C11: a refresh that was answered 2xx with a token object returns True and
\* leaves, in the session and in the vault entry of the user, the access
\* token of the response, the refresh token of the response if it carries
\* one and the previous refresh token otherwise, and the expiry
\* time of refresh + expires_in (7200 when the response names none).
C11_RefreshUpdatesSession ==
  [][(RefreshReturns /\ requests'.refresh > requests.refresh /\ resp'.kind = "2xx")
       => LET stored == UsersGet(load_data(fernet, data_file').users, username) IN
          /\ rv' = "True"
          /\ stored.tiktok_access_token =
               (IF resp'.access_token = Absent THEN None ELSE resp'.access_token)
          /\ stored.refresh_token =
               (IF resp'.refresh_token = Absent THEN user_data.refresh_token
                                                ELSE resp'.refresh_token)
          /\ stored.expires_at =
               <<now + (IF resp'.expires_in = <<>> THEN DefaultExpiresIn ELSE resp'.expires_in[1])>>
          /\ stored = user_data']_vars

\* A refresh has succeeded with a rotated refresh token and the vault holds it.
C11_Witness ==
  /\ pc = "refresh_return" /\ rv = "True" /\ requests.refresh = 1
  /\ resp.kind = "2xx" /\ resp.access_token \in AccessTokens
  /\ resp.refresh_token \in RotatedTokens
  /\ StoredSession.refresh_token = resp.refresh_token
  /\ StoredSession.expires_at = <<resp.at + 1>>

\* C12: a login whose exchange request got a non-2xx answer, no answer, or
\* a body without access_token ends with a message to the user, is not a
\* successful login, and leaves the vault as it was when the login began.
C12_ExchangeFailureReported ==
  (pc = "menu" /\ requests.exchange = 1
     /\ (resp.kind # "2xx" \/ resp.access_token = Absent))
    => /\ outcome # "login_ok"
       /\ ResultMessage(outcome) # ""
       /\ data_file = entry_file

\* C13: a request without a non-empty code or without a non-empty state is
\* answered 400, changes neither the captured code nor the captured state
\* and does not move the foreground thread; a request is answered 200 only
\* if it carries both, and then both are captured.
C13_MalformedCallbackRejected ==
  [][/\ (callbacks' = callbacks + 1 /\ (handler'.code = None \/ handler'.state = None))
          => /\ handler'.status = 400 /\ ~handler'.busy
             /\ httpd'.auth_code = httpd.auth_code /\ httpd'.auth_state = httpd.auth_state
             /\ pc' = pc
     /\ (handler'.status # handler.status /\ handler'.status = 400)
          => (handler'.code = None \/ handler'.state = None)
     /\ (handler'.status # handler.status /\ handler'.status = 200)
          => /\ handler'.code # None /\ handler'.state # None
             /\ httpd'.auth_code = handler'.code /\ httpd'.auth_state = handler'.state]_vars

\* A request with a state and no code was answered 400 and the foreground
\* thread is still waiting for a code.
C13_Witness ==
  /\ pc = "login_wait" /\ handler.status = 400
  /\ handler.code = None /\ handler.state \in Usernames
  /\ httpd.auth_code = None /\ httpd.auth_state = None

\* C14: once the listener of a login attempt holds a code and a state, no
\* later request to it changes either of them, and the foreground thread
\* reads the code once.
C14_FirstCallbackOnly ==
  [][/\ (httpd.auth_code # None /\ httpd.auth_state # None
          /\ (callbacks' = callbacks + 1 \/ (handler.busy /\ handler'.status = 200)))
          => /\ httpd'.auth_code = httpd.auth_code
             /\ httpd'.auth_state = httpd.auth_state
     /\ (auth_code # None => auth_code' \in {auth_code, None})]_vars

\* C15: whenever the foreground thread is waiting for the callback, it
\* later is back at the menu (or past the wait), callback or not.
C15_WaitTerminates == (pc = "login_wait") ~> (pc # "login_wait")

\* C16: while the program is at the menu no listener thread is serving:
\* every return of tiktok_oauth_login has stopped the thread it started.
C16_ListenerStoppedAtMenu == pc = "menu" => ~httpd.serving

\* C17: in every state of a run of eldoore1.1.py that began with no vault
\* file, the document in the vault names as current_user only a user that
\* has an entry in users.
C17_CurrentUserHasEntry ==
  LET d == load_data(fernet, data_file) IN
  d.current_user # None => d.current_user \in DOMAIN d.users

\* After a login, an analysis and a refresh that went to the token endpoint
\* and succeeded, the vault names a current user.
C17_Witness ==
  /\ pc = "menu" /\ outcome = "token_refreshed" /\ requests.refresh = 1
  /\ CurrentUser \in Usernames
  /\ Len(load_data(fernet, data_file).analyses) = 1

\* C18: whenever TTKv1.py is at its menu, the document in the vault names
\* as current_user only a user that has an entry in users.
C18_TtkCurrentUserHasEntry ==
  pc = "menu" => (TtkDocument.current_user # None
                    => TtkDocument.current_user \in DOMAIN TtkDocument.users)

\* C19: when logout(u) of eldoore1.1.py or TTKv1.py has run without raising,
\* the document in the vault has no entry for u and current_user None, and
\* its other users with their sessions, its creds and its analyses are
\* those of the document that was in the vault before.
C19_LogoutFrame ==
  [][(variant \in {"eldoore", "ttk"} /\ vpc \notin {"ran", "ran_damaged"}
        /\ vpc' \in {"ran", "ran_damaged"} /\ vcall'.op = "logout" /\ vres'.exc = "none")
       => LET before == LoadData(variant, fernet, data_file).val
              after == LoadData(variant, fernet, data_file').val
              u == vcall'.user
          IN /\ u \notin DOMAIN after.users
             /\ after.current_user = None
             /\ DOMAIN after.users = (DOMAIN before.users) \ {u}
             /\ \A w \in DOMAIN after.users : after.users[w] = before.users[w]
             /\ after.creds = before.creds
             /\ after.analyses = before.analyses]_vars

\* alice was logged out of a saved vault that held sessions of alice and
\* bob, credentials and an analysis; bob's session is still there.
C19_Witness ==
  /\ vpc = "ran" /\ vcall = [op |-> "logout", user |-> "alice"] /\ vres.exc = "none"
  /\ variant \in {"eldoore", "ttk"}
  /\ DOMAIN vdoc.users = {"alice", "bob"} /\ vdoc.current_user = "alice"
  /\ vdoc.analyses # <<>> /\ vdoc.creds # NoCreds
  /\ LET d == LoadData(variant, fernet, data_file).val IN
       /\ DOMAIN d.users = {"bob"} /\ d.users["bob"] = vdoc.users["bob"]
       /\ d.current_user = None /\ d.analyses = vdoc.analyses

\* C20: a start that finds no KEY_FILE writes one and uses its key; a start
\* that finds a KEY_FILE of age at most 30 days leaves it as it is and uses
\* its key; and load_data in a run started that way, after a run that ended
\* with saving a document, returns that document.
C20_KeyKeptAcrossRuns ==
  [][/\ (runs' = runs + 1 /\ ~key_file.exists)
          => key_file'.exists /\ fernet' = key_file'.key
     /\ (runs' = runs + 1 /\ key_file.exists /\ now' - key_file.mtime <= 30 * 24 * 3600)
          => key_file' = key_file /\ fernet' = key_file.key
     /\ (vpc = "started_saved" /\ vpc' = "reloaded_next_run"
           /\ key_age >= 0 /\ key_age <= 30 * 24 * 3600)
          => vres'.exc = "none" /\ vres'.val = vdoc]_vars

\* eldoore1.1.py, started again exactly 30 days after the start that made
\* the key, has loaded the document the earlier run saved.
C20_Witness ==
  /\ vpc = "reloaded_next_run" /\ variant = "eldoore"
  /\ key_age = 30 * 24 * 3600 /\ runs = 2
  /\ vdoc.current_user \in DOMAIN vdoc.users
  /\ vres.val = vdoc

C22_RefreshBeforeAuthenticatedRequest ==
  [][/\ requests'.api > requests.api
          => (ret \in {"performance", "promotion"} /\ rv = "True")
     /\ (pc = "refresh_return" /\ ret \in {"performance", "promotion"} /\ rv = "False")
          => (requests'.api = requests.api /\ pc' \in {"refresh_return", "menu"})]_vars

C22_Witness ==
  /\ pc = "menu"
  /\ outcome = "campaign_live"
  /\ requests.api = 3
  /\ requests.refresh = 1

\* C23: no request carrying the session's access token is sent at a time
\* past the expiry stored in that session.
C23_NoRequestWithExpiredToken ==
  [][requests'.api > requests.api
       => ~(user_data.expires_at # <<>> /\ Expired(user_data, now))]_vars

\* C24: no failure of a vault operation run from the menu (a save that
\* fails, a load of a damaged vault, the operations that start with one)
\* ends the process.
C24_FailureReturnsToMenu == ~EndsProcess(vres.exc)

C27_MatchingCallbackAccepted ==
  [][(pc = "login_state" /\ callbacks = 1
        /\ handler.code # None /\ handler.state = username)
       => outcome' # "state_mismatch"]_vars

\* C28: from the return of start_local_server until shutdown() the
\* listening socket is open and the thread is serving.
C28_ListenerOpenWhileWaiting ==
  pc \in {"login_wait", "login_state", "login_take"} => (httpd.open /\ httpd.serving)

\* C29: every session stored in the vault has an access token.
C29_StoredSessionsHaveToken ==
  LET users == load_data(fernet, data_file).users IN
  \A u \in DOMAIN users : users[u].tiktok_access_token # None

\* C30: in tiktok_kit_cli.py, the menu iteration that follows a successful
\* login and chooses one of the protected options runs that option for the
\* username that logged in.
C30_LoggedInUserRecognised ==
  [][(outcome = "login_ok" /\ choice' \in ProtectedChoices)
       => (vcall'.op = choice' /\ vcall'.user = username)]_vars

====
